---- MODULE Spec2Model ----
(***************************************************************************)
(* The streaming relay of the chat front end                               *)
(* (src/src/demo_mlflow_agent_tracing/app.py): stream_agent_response and   *)
(* the nested consumers thinking, tool_response and tool_call, which all   *)
(* draw from one shared async generator of (token, metadata) events.       *)
(*                                                                         *)
(* Python strings are modelled as sequences of lexemes, so that            *)
(* concatenation is \o, the empty string is << >>, and JSON text can be    *)
(* parsed and printed lexeme by lexeme.                                    *)
(***************************************************************************)
EXTENDS Integers, Sequences, FiniteSets, TLC

VARIABLES
    drawn,            \* events the generator has yielded so far, each with the loop that drew it
    exhausted,        \* the generator has raised StopAsyncIteration
    pc,               \* position of the relay coroutine
    last_node,        \* stream_agent_response: last_node
    node,             \* stream_agent_response: node of the event of the current iteration
    token,            \* stream_agent_response: token of the current iteration
    msg,              \* stream_agent_response: msg (0 is None, else an index into messages)
    messages,         \* the cl.Message objects created so far
    steps,            \* the cl.Step objects created so far
    ui,               \* the UI sink: every emission, in the order it was made
    message_history,  \* the session's message_history list
    tool_calls,       \* tool_call: the accumulating AIMessageChunk (its tool_call_chunks)
    raised,           \* the exception that left stream_agent_response ("" when none)
    turn,             \* number of user messages main has handled or is handling
    hook,             \* outcome of the last call of the before_agent hook update_tracing
    env,              \* the process environment Settings() reads
    settings,         \* the outcome of the last Settings() construction
    ret,              \* the outcome of the last call of a function outside the relay
    source            \* the agent graph behind astream: the events it may yield and how many

vars == <<drawn, exhausted, pc, last_node, node, token, msg, messages, steps,
          ui, message_history, tool_calls, raised, turn, hook, env, settings, ret,
          source>>

\* the state the relay and its consumers never touch
aux == <<turn, hook, env, settings, ret, source>>

(***************************************************************************)
(* Bounds                                                                  *)
(***************************************************************************)
\* Longest event sequence one turn's generator yields.
MaxLen == 4

\* Most events the generators of one chat session yield, over all turns.
MaxSessionLen == 3

\* Most user messages of one chat session.
MaxTurns == 2

(***************************************************************************)
(* Python values                                                           *)
(***************************************************************************)
PyNone == [ty |-> "none", val |-> << >>]

PyStr(s) == [ty |-> "str", val |-> s]

\* A dict as json.loads builds it from the supported JSON texts: a chain of
\* single-key objects ending in a number or in the empty object.
PyDict(keys, leaf) == [ty |-> "dict", val |-> keys \o <<leaf>>]

IsStr(v) == v.ty = "str"

\* The literal sentinels of app.py.
THINK_OPEN == <<"<think>">>

THINK_CLOSE == <<"</think>">>

(***************************************************************************)
(* json.loads / json.dumps on lexeme sequences                             *)
(***************************************************************************)
JsonNumbers == {"1", "2"}

JsonKeys == {"a", "b"}

ParseFail == [ok |-> FALSE, keys |-> << >>, leaf |-> "", next |-> 0]

\* value ::= number | { } | { " key " : value }
RECURSIVE ParseValue(_, _)
ParseValue(s, i) ==
    IF i > Len(s) THEN ParseFail
    ELSE IF s[i] \in JsonNumbers
    THEN [ok |-> TRUE, keys |-> << >>, leaf |-> s[i], next |-> i + 1]
    ELSE IF s[i] # "{" \/ i + 1 > Len(s) THEN ParseFail
    ELSE IF s[i + 1] = "}"
    THEN [ok |-> TRUE, keys |-> << >>, leaf |-> "{}", next |-> i + 2]
    ELSE IF i + 4 > Len(s) THEN ParseFail
    ELSE IF s[i + 1] = "\"" /\ s[i + 2] \in JsonKeys /\ s[i + 3] = "\"" /\ s[i + 4] = ":"
    THEN LET r == ParseValue(s, i + 5)
         IN  IF r.ok /\ r.next <= Len(s) /\ s[r.next] = "}"
             THEN [ok |-> TRUE, keys |-> <<s[i + 2]>> \o r.keys, leaf |-> r.leaf,
                   next |-> r.next + 1]
             ELSE ParseFail
    ELSE ParseFail

\* json.loads(s): the whole text must be one value; anything else raises
\* JSONDecodeError (ok = FALSE).
JsonLoads(s) ==
    LET r == ParseValue(s, 1)
    IN  IF r.ok /\ r.next = Len(s) + 1
        THEN [ok |-> TRUE, value |-> PyDict(r.keys, r.leaf)]
        ELSE [ok |-> FALSE, value |-> PyNone]

\* d is the dict's key chain followed by its leaf.
RECURSIVE DumpDict(_)
DumpDict(d) ==
    IF Len(d) = 1
    THEN IF d[1] = "{}" THEN <<"{", "}">> ELSE <<d[1]>>
    ELSE <<"{", "\"", Head(d), "\"", ":">> \o DumpDict(Tail(d)) \o <<"}">>

\* json.dumps of one Python value.
JsonDumpsValue(v) ==
    IF v.ty = "none" THEN <<"null">>
    ELSE IF v.ty = "str" THEN <<"\"">> \o v.val \o <<"\"">>
    ELSE DumpDict(v.val)

RECURSIVE DumpItems(_)
DumpItems(items) ==
    IF items = << >> THEN << >>
    ELSE <<"{", "\"", "name", "\"", ":">> \o JsonDumpsValue(items[1].name)
         \o <<",", "\"", "args", "\"", ":">> \o JsonDumpsValue(items[1].args) \o <<"}">>
         \o (IF Len(items) > 1 THEN <<",">> ELSE << >>)
         \o DumpItems(Tail(items))

\* json.dumps(output, indent=2) of the list of {name, args}.
JsonDumps(items) == <<"[">> \o DumpItems(items) \o <<"]">>

(***************************************************************************)
(* Tokens and events                                                       *)
(***************************************************************************)
ToolCall(name, args) == [name |-> name, args |-> args]

ToolCallChunk(name, args, index) == [name |-> name, args |-> args, index |-> index]

Token(content, tcs, chunks) ==
    [content |-> content, tool_calls |-> tcs, tool_call_chunks |-> chunks]

Event(tok, nd) == [token |-> tok, metadata |-> [langgraph_node |-> nd]]

AGENT == <<"agent">>

MODEL == <<"model">>

TOOLS == <<"tools">>

\* The args fragments of the chunked call {"a": 1}.
ArgsHead == <<"{", "\"", "a", "\"", ":">>

ArgsTail == <<"1", "}">>

TextEvents ==
    { Event(Token(<<"Hello ">>, << >>, << >>), AGENT),
      Event(Token(<<"world">>, << >>, << >>), AGENT),
      Event(Token(<<"Done">>, << >>, << >>), AGENT),
      Event(Token(<<"Summary">>, << >>, << >>), MODEL),
      Event(Token(<<"result">>, << >>, << >>), TOOLS),
      Event(Token(<< >>, << >>, << >>), AGENT) }

ThinkEvents ==
    { Event(Token(THINK_OPEN, << >>, << >>), AGENT),
      Event(Token(THINK_CLOSE, << >>, << >>), AGENT) }

ToolCallEvents ==
    { \* a complete tool call, args already a dict
      Event(Token(<< >>, <<ToolCall(PyStr(<<"search">>), PyDict(<<"a">>, "1"))>>, << >>), AGENT),
      \* first chunk of a call: carries the name, the head of args, and the
      \* partially parsed tool_calls the chunk class derives from it
      Event(Token(<< >>, <<ToolCall(PyStr(<<"search">>), PyDict(<< >>, "{}"))>>,
                  <<ToolCallChunk(PyStr(<<"search">>), PyStr(ArgsHead), 0)>>), AGENT),
      \* a continuation chunk of the same call
      Event(Token(<< >>, << >>, <<ToolCallChunk(PyNone, PyStr(ArgsTail), 0)>>), AGENT),
      \* a whole second call in one chunk
      Event(Token(<< >>, << >>,
                  <<ToolCallChunk(PyStr(<<"list">>), PyStr(<<"{", "}">>), 1)>>), AGENT) }

\* What the generator may yield.
Events == TextEvents \cup ThinkEvents \cup ToolCallEvents

(***************************************************************************)
(* AIMessageChunk addition (tool_calls += token, app.py line 98)           *)
(***************************************************************************)
\* String fields merged right to left.
MergeStrReversed(a, b) ==
    IF a.ty = "none" THEN b
    ELSE IF b.ty = "none" THEN a
    ELSE PyStr(b.val \o a.val)

MergeStr(a, b) ==
    IF a.ty = "none" THEN b
    ELSE IF b.ty = "none" THEN a
    ELSE PyStr(a.val \o b.val)

MergeChunk(l, r) ==
    [name |-> MergeStr(l.name, r.name), args |-> MergeStr(l.args, r.args),
     index |-> l.index]

\* One chunk merged into a list: onto the first element with the same
\* index, appended when there is none.
MergeOne(left, e) ==
    LET same == {i \in 1..Len(left) : left[i].index = e.index}
    IN  IF same = {} THEN Append(left, e)
        ELSE LET k == CHOOSE i \in same : \A j \in same : i <= j
             IN  [left EXCEPT ![k] = MergeChunk(left[k], e)]

RECURSIVE MergeLists(_, _)
MergeLists(left, right) ==
    IF right = << >> THEN left
    ELSE MergeLists(MergeOne(left, Head(right)), Tail(right))

(***************************************************************************)
(* Pieces of stream_agent_response and its helpers                         *)
(***************************************************************************)
\* The node test with the comparison inverted.
NodeChangedInverted(n, last) == n = last

\* line 134: node != last_node
NodeChanged(n, last) == n # last

\* The tool-node test as an equality with a misspelt name.
InToolsMisspelt(n) == n = <<"tool">>

\* line 147: "tools" in node
InTools(n) == \E i \in 1..Len(n) : n[i] = "tools"

\* line 141: if token.content
HasContent(t) == t.content # << >>

\* line 79: token.content == "</think>", written with the opening sentinel.
IsThinkCloseAsOpen(content) == content = THINK_OPEN

\* line 79: token.content == "</think>"
IsThinkClose(content) == content = THINK_CLOSE

\* The chunk test taken as true for any token that carries tool calls.
HasChunksOrCalls(t) == t.tool_call_chunks # << >> \/ t.tool_calls # << >>

\* lines 94, 97: hasattr(token, "tool_call_chunks") and token.tool_call_chunks
HasToolCallChunks(t) == t.tool_call_chunks # << >>

\* line 104: hasattr(init_token, "tool_calls") and init_token.tool_calls
HasToolCalls(t) == t.tool_calls # << >>

\* The branches of lines 94 and 104 in the other order: a token with
\* complete tool_calls never starts the aggregation.
TakesChunkPathUnlessComplete(t) == HasToolCallChunks(t) /\ ~HasToolCalls(t)

\* lines 94 and 104: the if tests the chunks first, the elif the complete
\* calls, so a token with both takes the chunk path.
TakesChunkPath(t) == HasToolCallChunks(t)

\* line 156 taken as true for any token that carries text as well.
NeedsToolCallOrContent(t) == HasContent(t) \/ HasToolCalls(t) \/ HasToolCallChunks(t)

\* line 156 taken as true for every token.
NeedsToolCallAlways(t) == t = t

\* line 156
NeedsToolCall(t) == HasToolCalls(t) \/ HasToolCallChunks(t)

\* A stream_token that puts the token in front of the text.
StreamTokenPrepended(text, tok) == tok \o text

\* Message.stream_token / Step.stream_token: the text grows by the token.
StreamToken(text, tok) == text \o tok

\* The three-backquote fence of a Markdown code block, as one lexeme.
FENCE == "fence"

\* line 88
FencedCode(content) == <<FENCE, "\n">> \o content \o <<"\n", FENCE>>

\* line 121
FencedJson(output) == <<FENCE, "json", "\n">> \o output \o <<"\n", FENCE>>

\* line 116, for one tool: json.loads of a str args, anything else as it is.
ResolveArgs(args) ==
    IF IsStr(args) THEN JsonLoads(args.val) ELSE [ok |-> TRUE, value |-> args]

\* lines 113-119: the list of {name, args}; ok is FALSE when a json.loads raises.
RECURSIVE ToolCallOutput(_)
ToolCallOutput(tcs) ==
    IF tcs = << >> THEN [ok |-> TRUE, items |-> << >>]
    ELSE LET a == ResolveArgs(tcs[1].args)
             rest == ToolCallOutput(Tail(tcs))
         IN  IF a.ok /\ rest.ok
             THEN [ok |-> TRUE,
                   items |-> <<ToolCall(tcs[1].name, a.value)>> \o rest.items]
             ELSE [ok |-> FALSE, items |-> << >>]

NewMessage == [content |-> << >>, updates |-> 0]

NewStep(name, output, is_error, ended) ==
    [name |-> name, output |-> output, is_error |-> is_error, ended |-> ended]

UiOp(kind, id, op) == [kind |-> kind, id |-> id, op |-> op]

\* A finalization whose msg.update() is missing.
FinalizedWithoutUpdate(ms, m) == ms

\* lines 136-137 and 163-164: msg.update() and the history entry.
Finalized(ms, m) == [ms EXCEPT ![m].updates = @ + 1]

HistoryEntry(ms, m) == [role |-> "assistant", content |-> ms[m].content]

\* The node check without the reset of line 138.
MsgNeverReset(changed, m) == m

\* line 138, after the node check of lines 134-137: msg is reset when the
\* node changed and kept otherwise.
MsgAfterNodeCheck(changed, m) == IF changed THEN 0 ELSE m

\* last_node taken from the last event tool_call consumed.
LastNodeOfConsumed(outer_node, consumed_node) == consumed_node

\* line 159 after tool_call returned: last_node takes the node of the
\* event the outer loop drew, whatever tool_call consumed.
LastNodeAfterToolCall(outer_node, consumed_node) == outer_node

\* lines 152-153 without the test: a new message for every text.
TargetMessageAlwaysNew(ms, m) == Len(ms) + 1

\* lines 152-153: the message the text goes to.
TargetMessage(ms, m) == IF m = 0 THEN Len(ms) + 1 ELSE m

(***************************************************************************)
(* Settings (src/src/demo_mlflow_agent_tracing/settings.py) and            *)
(* get_chat_model (chat_model.py).  An environment variable or an Optional *)
(* field is a sequence: << >> when unset (None), <<v>> when it holds v.    *)
(***************************************************************************)
OPENAI == "openai"

VERTEX == "vertex"

\* settings.py line 13, env_ignore_empty=True: a variable set to the empty
\* string is read as if it were unset.
EnvIgnoreEmpty(v) == IF v = <<"">> THEN << >> ELSE v

\* lines 16-29: the fields as loaded from the environment, with defaults.
LoadFields(e) ==
    [LLM_PROVIDER      |-> IF EnvIgnoreEmpty(e.LLM_PROVIDER) = << >>
                           THEN <<OPENAI>> ELSE e.LLM_PROVIDER,
     OPENAI_API_KEY    |-> EnvIgnoreEmpty(e.OPENAI_API_KEY),
     OPENAI_MODEL_NAME |-> EnvIgnoreEmpty(e.OPENAI_MODEL_NAME),
     VERTEX_PROJECT_ID |-> EnvIgnoreEmpty(e.VERTEX_PROJECT_ID),
     VERTEX_REGION     |-> EnvIgnoreEmpty(e.VERTEX_REGION),
     VERTEX_MODEL_NAME |-> EnvIgnoreEmpty(e.VERTEX_MODEL_NAME)]

\* line 16: Literal["openai", "vertex"].
ProviderIsLiteral(p) == p \in {<<OPENAI>>, <<VERTEX>>}

\* the validator with "and" in place of "or" at line 73
llmRequiresEither(s) ==
    IF s.LLM_PROVIDER = <<OPENAI>>
    THEN ~(s.OPENAI_API_KEY = << >> /\ s.OPENAI_MODEL_NAME = << >>)
    ELSE ~(s.VERTEX_PROJECT_ID = << >> \/ s.VERTEX_REGION = << >>
           \/ s.VERTEX_MODEL_NAME = << >>)

\* lines 69-86: TRUE when the validator returns self, FALSE when it raises.
llm(s) ==
    IF s.LLM_PROVIDER = <<OPENAI>>
    THEN ~(s.OPENAI_API_KEY = << >> \/ s.OPENAI_MODEL_NAME = << >>)
    ELSE ~(s.VERTEX_PROJECT_ID = << >> \/ s.VERTEX_REGION = << >>
           \/ s.VERTEX_MODEL_NAME = << >>)

\* lines 49-52.
openai_enabled(s) == s.LLM_PROVIDER = <<OPENAI>>

\* lines 54-57.
vertex_enabled(s) == s.LLM_PROVIDER = <<VERTEX>>

\* Settings(): field validation (line 16), then the "after" validator.
NewSettings(e) ==
    LET s == LoadFields(e)
    IN  IF ~ProviderIsLiteral(s.LLM_PROVIDER)
        THEN [ok |-> FALSE, error |-> "ValidationError", fields |-> s]
        ELSE IF ~llm(s)
        THEN [ok |-> FALSE, error |-> "Exception", fields |-> s]
        ELSE [ok |-> TRUE, error |-> "", fields |-> s]

\* no Settings object has been constructed yet
NoSettings == [ok |-> FALSE, error |-> "unbuilt", fields |-> LoadFields(
    [LLM_PROVIDER |-> << >>, OPENAI_API_KEY |-> << >>, OPENAI_MODEL_NAME |-> << >>,
     VERTEX_PROJECT_ID |-> << >>, VERTEX_REGION |-> << >>, VERTEX_MODEL_NAME |-> << >>])]

\* chat_model.py lines 8-23: the class of the model returned, or the
\* exception raised; line 22 dereferences OPENAI_API_KEY.
get_chat_model(e) ==
    LET st == NewSettings(e)
    IN  IF ~st.ok THEN [raised |-> st.error, value |-> << >>]
        ELSE IF vertex_enabled(st.fields)
        THEN [raised |-> "", value |-> <<"ChatAnthropicVertex">>]
        ELSE IF st.fields.OPENAI_API_KEY = << >>
        THEN [raised |-> "AttributeError", value |-> << >>]
        ELSE [raised |-> "", value |-> <<"ChatOpenAI">>]

\* the environment of the running chat application
ChatEnv ==
    [LLM_PROVIDER |-> << >>, OPENAI_API_KEY |-> <<"x">>, OPENAI_MODEL_NAME |-> <<"x">>,
     VERTEX_PROJECT_ID |-> << >>, VERTEX_REGION |-> << >>, VERTEX_MODEL_NAME |-> << >>]

\* no function outside the relay has been called yet
NoReturn == [fn |-> "", args |-> << >>, raised |-> "", value |-> << >>]

(***************************************************************************)
(* The shared generator (agent.astream, line 130)                          *)
(***************************************************************************)
NoToken == Token(<< >>, << >>, << >>)

CanYield == ~exhausted /\ Len(drawn) < source.limit

Drawn(e, by) == [event |-> e, by |-> by]

(***************************************************************************)
(* State after construction: start_chat has created message_history and   *)
(* main has appended the user's message and called the relay (lines 66,    *)
(* 179-181, 195); the relay stands before its first draw (lines 126-131).  *)
(***************************************************************************)
Init ==
    /\ drawn = << >>
    /\ exhausted = FALSE
    /\ pc = "loop"
    /\ last_node = << >>
    /\ node = << >>
    /\ token = NoToken
    /\ msg = 0
    /\ messages = << >>
    /\ steps = << >>
    /\ ui = << >>
    /\ message_history = <<[role |-> "user", content |-> <<"question">>]>>
    /\ tool_calls = << >>
    /\ raised = ""
    /\ turn = 1
    /\ hook = "idle"
    /\ env = ChatEnv
    /\ settings = NewSettings(ChatEnv)
    /\ ret = NoReturn
    /\ source = [events |-> Events, limit |-> MaxLen]

(***************************************************************************)
(* stream_agent_response, lines 131-154: the outer loop draws an event,    *)
(* closes the message of the previous node and dispatches the content.     *)
(***************************************************************************)
LoopNext ==
    /\ pc = "loop"
    /\ CanYield
    /\ \E e \in source.events :
        LET n       == e.metadata.langgraph_node
            content == e.token.content
            changed == NodeChanged(n, last_node)
            flush   == changed /\ msg # 0
            ms1     == IF flush THEN Finalized(messages, msg) ELSE messages
            ui1     == IF flush THEN Append(ui, UiOp("message", msg, "update")) ELSE ui
            m1      == MsgAfterNodeCheck(changed, msg)
            m2      == TargetMessage(ms1, m1)
            ms2     == IF m2 > Len(ms1) THEN Append(ms1, NewMessage) ELSE ms1
            sid     == Len(steps) + 1
        IN  /\ drawn' = Append(drawn, Drawn(e, "outer"))
            /\ node' = n
            /\ token' = e.token
            /\ message_history' =
                   IF flush THEN Append(message_history, HistoryEntry(messages, msg))
                   ELSE message_history
            /\ IF HasContent(e.token) /\ content = THINK_OPEN
               THEN /\ steps' = Append(steps, NewStep("Thinking", << >>, FALSE, FALSE))
                    /\ ui' = Append(ui1, UiOp("step", sid, "send"))
                    /\ messages' = ms1
                    /\ msg' = m1
                    /\ pc' = "thinking"
               ELSE IF HasContent(e.token) /\ InTools(n)
               THEN /\ steps' = Append(steps, NewStep("Tool Response", FencedCode(content),
                                                      FALSE, TRUE))
                    /\ ui' = ui1 \o <<UiOp("step", sid, "send"), UiOp("step", sid, "update")>>
                    /\ messages' = ms1
                    /\ msg' = m1
                    /\ pc' = "toolcheck"
               ELSE IF HasContent(e.token)
               THEN /\ messages' = [ms2 EXCEPT ![m2].content = StreamToken(@, content)]
                    /\ msg' = m2
                    /\ ui' = Append(ui1, UiOp("message", m2, "stream_token"))
                    /\ steps' = steps
                    /\ pc' = "toolcheck"
               ELSE /\ messages' = ms1
                    /\ msg' = m1
                    /\ ui' = ui1
                    /\ steps' = steps
                    /\ pc' = "toolcheck"
    /\ UNCHANGED <<exhausted, last_node, tool_calls, raised>>
    /\ UNCHANGED aux

\* lines 131, 161-164: the generator is exhausted, the loop ends and the
\* open message is closed.
LoopEnd ==
    /\ pc = "loop"
    /\ exhausted' = TRUE
    /\ IF msg # 0
       THEN /\ messages' = Finalized(messages, msg)
            /\ ui' = Append(ui, UiOp("message", msg, "update"))
            /\ message_history' = Append(message_history, HistoryEntry(messages, msg))
       ELSE UNCHANGED <<messages, ui, message_history>>
    /\ pc' = "done"
    /\ UNCHANGED <<drawn, last_node, node, token, msg, steps, tool_calls, raised>>
    /\ UNCHANGED aux

(***************************************************************************)
(* thinking, lines 75-81                                                   *)
(***************************************************************************)
ThinkingNext ==
    /\ pc = "thinking"
    /\ CanYield
    /\ \E e \in source.events :
        LET sid == Len(steps)
        IN  /\ drawn' = Append(drawn, Drawn(e, "thinking"))
            /\ IF IsThinkClose(e.token.content)
               THEN /\ steps' = [steps EXCEPT ![sid].ended = TRUE]
                    /\ ui' = Append(ui, UiOp("step", sid, "update"))
                    /\ pc' = "toolcheck"
               ELSE /\ steps' = [steps EXCEPT ![sid].output = StreamToken(@, e.token.content)]
                    /\ ui' = IF e.token.content # << >>
                             THEN Append(ui, UiOp("step", sid, "stream_token"))
                             ELSE ui
                    /\ pc' = "thinking"
    /\ UNCHANGED <<exhausted, last_node, node, token, msg, messages, message_history,
                   tool_calls, raised>>
    /\ UNCHANGED aux

\* line 78: the generator ends inside the sub-loop; the step closes.
ThinkingEnd ==
    /\ pc = "thinking"
    /\ exhausted' = TRUE
    /\ steps' = [steps EXCEPT ![Len(steps)].ended = TRUE]
    /\ ui' = Append(ui, UiOp("step", Len(steps), "update"))
    /\ pc' = "toolcheck"
    /\ UNCHANGED <<drawn, last_node, node, token, msg, messages, message_history,
                   tool_calls, raised>>
    /\ UNCHANGED aux

(***************************************************************************)
(* tool_call, lines 91-121                                                 *)
(***************************************************************************)
\* lines 112-121 followed by line 159: the Tool Call step of the aggregate
\* tcs; consumed_node is the node of the last event tool_call drew.
WriteToolCall(tcs, consumed_node) ==
    LET out == ToolCallOutput(tcs)
        sid == Len(steps) + 1
    IN  /\ ui' = ui \o <<UiOp("step", sid, "send"), UiOp("step", sid, "update")>>
        /\ IF out.ok
           THEN /\ steps' = Append(steps, NewStep("Tool Call", FencedJson(JsonDumps(out.items)),
                                                  FALSE, TRUE))
                /\ last_node' = LastNodeAfterToolCall(node, consumed_node)
                /\ pc' = "loop"
                /\ raised' = raised
           ELSE /\ steps' = Append(steps, NewStep("Tool Call", <<"JSONDecodeError">>,
                                                  TRUE, TRUE))
                /\ last_node' = last_node
                /\ pc' = "error"
                /\ raised' = "JSONDecodeError"

\* lines 156-159 and the branch of lines 94-109 on the triggering token.
ToolCheck ==
    /\ pc = "toolcheck"
    /\ IF ~NeedsToolCall(token)
       THEN /\ last_node' = node
            /\ pc' = "loop"
            /\ UNCHANGED <<steps, ui, tool_calls, raised>>
       ELSE IF TakesChunkPath(token)
       THEN /\ tool_calls' = token.tool_call_chunks
            /\ pc' = "aggregating"
            /\ UNCHANGED <<steps, ui, last_node, raised>>
       ELSE IF HasToolCalls(token)
       THEN /\ WriteToolCall(token.tool_calls, node)
            /\ UNCHANGED tool_calls
       ELSE /\ raised' = "AttributeError"
            /\ pc' = "error"
            /\ UNCHANGED <<steps, ui, tool_calls, last_node>>
    /\ UNCHANGED <<drawn, exhausted, node, token, msg, messages, message_history>>
    /\ UNCHANGED aux

\* lines 96-101: one more event drawn by the aggregation loop.
AggregateNext ==
    /\ pc = "aggregating"
    /\ CanYield
    /\ \E e \in source.events :
        /\ drawn' = Append(drawn, Drawn(e, "tool_call"))
        /\ IF HasToolCallChunks(e.token)
           THEN /\ tool_calls' = MergeLists(tool_calls, e.token.tool_call_chunks)
                /\ pc' = "aggregating"
                /\ UNCHANGED <<steps, ui, last_node, raised>>
           ELSE /\ WriteToolCall(tool_calls, e.metadata.langgraph_node)
                /\ UNCHANGED tool_calls
    /\ UNCHANGED <<exhausted, node, token, msg, messages, message_history>>
    /\ UNCHANGED aux

\* line 96 with the generator exhausted: the loop ends without the break,
\* tool_calls is still the AIMessageChunk, and iterating it at line 118
\* yields (field, value) tuples, so tool["name"] raises TypeError inside
\* the step.
AggregateEnd ==
    /\ pc = "aggregating"
    /\ exhausted' = TRUE
    /\ steps' = Append(steps, NewStep("Tool Call", <<"TypeError">>, TRUE, TRUE))
    /\ ui' = ui \o <<UiOp("step", Len(steps) + 1, "send"),
                     UiOp("step", Len(steps) + 1, "update")>>
    /\ raised' = "TypeError"
    /\ pc' = "error"
    /\ UNCHANGED <<drawn, last_node, node, token, msg, messages, message_history,
                   tool_calls>>
    /\ UNCHANGED aux

(***************************************************************************)
(* The generator raises: agent.astream fails while the relay awaits the    *)
(* next event.  Nothing in app.py catches it.                              *)
(***************************************************************************)
UPSTREAM_ERROR == "UpstreamStreamError"

\* The exception leaving through a finally clause that runs lines 161-164.
PropagateThroughFinally(err) ==
    /\ raised' = err
    /\ pc' = "error"
    /\ msg' = msg
    /\ IF msg # 0
       THEN /\ messages' = Finalized(messages, msg)
            /\ message_history' = Append(message_history, HistoryEntry(messages, msg))
       ELSE UNCHANGED <<messages, message_history>>

\* lines 124-164 hold no try, except or finally: the exception leaves
\* stream_agent_response and the message state stays as it is.
Propagate(err) ==
    /\ raised' = err
    /\ pc' = "error"
    /\ UNCHANGED <<msg, messages, message_history>>

\* line 131: the exception leaves stream_agent_response from the outer
\* loop; lines 161-164 do not run.
LoopRaise ==
    /\ pc = "loop"
    /\ ~exhausted
    /\ Propagate(UPSTREAM_ERROR)
    /\ UNCHANGED <<drawn, exhausted, last_node, node, token, steps, ui, tool_calls>>
    /\ UNCHANGED aux

\* line 78: the exception passes through the async with of line 77, which
\* closes the Thinking step as an error, and then through line 144.
ThinkingRaise ==
    /\ pc = "thinking"
    /\ ~exhausted
    /\ steps' = [steps EXCEPT ![Len(steps)] =
                     [@ EXCEPT !.output = <<UPSTREAM_ERROR>>, !.is_error = TRUE,
                               !.ended = TRUE]]
    /\ ui' = Append(ui, UiOp("step", Len(steps), "update"))
    /\ Propagate(UPSTREAM_ERROR)
    /\ UNCHANGED <<drawn, exhausted, last_node, node, token, tool_calls>>
    /\ UNCHANGED aux

\* line 96: the exception leaves tool_call before the step of line 111 is
\* opened, and then line 157.
AggregateRaise ==
    /\ pc = "aggregating"
    /\ ~exhausted
    /\ Propagate(UPSTREAM_ERROR)
    /\ UNCHANGED <<drawn, exhausted, last_node, node, token, steps, ui, tool_calls>>
    /\ UNCHANGED aux

Next ==
    \/ LoopNext
    \/ LoopEnd
    \/ ThinkingNext
    \/ ThinkingEnd
    \/ ToolCheck
    \/ AggregateNext
    \/ AggregateEnd
    \/ LoopRaise
    \/ ThinkingRaise
    \/ AggregateRaise

Spec == Init /\ [][Next]_vars

(***************************************************************************)
(* A chat session: start_chat, then main once per user message (app.py     *)
(* lines 63-66 and 175-195).  The UI, the history and the record of drawn  *)
(* events live as long as the session; each turn runs a fresh relay on a   *)
(* fresh generator.                                                        *)
(***************************************************************************)
TRACE_ERROR == "NoActiveTraceError"

\* what the user may type
UserTexts == {<<"question">>, <<"more">>}

\* line 180
UserEntry(content) == [role |-> "user", content |-> content]

\* The history rebound to the new messages instead of extended by them.
ReplaceHistory(h, entries) == entries

\* line 181: message_history.extend(messages)
ExtendHistory(h, entries) == h \o entries

\* agent.py lines 57-66: the before_agent hook; fails says whether
\* mlflow.update_current_trace raised inside the try.
update_tracing(fails) == IF fails THEN "ignored" ELSE "updated"

\* what the session's agent graph may yield
SessionEvents ==
    { Event(Token(<<"Hello ">>, << >>, << >>), AGENT),
      Event(Token(<<"Summary">>, << >>, << >>), MODEL),
      Event(Token(<<"result">>, << >>, << >>), TOOLS),
      Event(Token(THINK_OPEN, << >>, << >>), AGENT),
      Event(Token(<< >>, <<ToolCall(PyStr(<<"search">>), PyDict(<<"a">>, "1"))>>, << >>), AGENT),
      Event(Token(<< >>, << >>,
                  <<ToolCallChunk(PyStr(<<"list">>), PyStr(<<"{", "}">>), 1)>>), AGENT) }

\* lines 63-66: start_chat has stored an empty message_history.
InitSession ==
    /\ drawn = << >>
    /\ exhausted = FALSE
    /\ pc = "idle"
    /\ last_node = << >>
    /\ node = << >>
    /\ token = NoToken
    /\ msg = 0
    /\ messages = << >>
    /\ steps = << >>
    /\ ui = << >>
    /\ message_history = << >>
    /\ tool_calls = << >>
    /\ raised = ""
    /\ turn = 0
    /\ hook = "idle"
    /\ env = ChatEnv
    /\ settings = NewSettings(ChatEnv)
    /\ ret = NoReturn
    /\ source = [events |-> SessionEvents, limit |-> MaxSessionLen]

\* main, lines 175-195, up to the first draw of the relay it awaits: the
\* user's message is appended (179-181), the trace metadata is attached
\* (184-185, in no try), and stream_agent_response starts with fresh
\* locals (126-131); the graph run behind astream begins with the
\* before_agent hook.  No turn is in flight when main is called.
Main ==
    /\ pc \in {"idle", "done", "error"}
    /\ turn < MaxTurns
    /\ turn' = turn + 1
    /\ \E text \in UserTexts :
          message_history' = ExtendHistory(message_history, <<UserEntry(text)>>)
    /\ \E fails \in BOOLEAN :
          IF fails
          THEN /\ raised' = TRACE_ERROR
               /\ pc' = "error"
               /\ hook' = hook
          ELSE /\ raised' = ""
               /\ pc' = "loop"
               /\ \E hook_fails \in BOOLEAN : hook' = update_tracing(hook_fails)
    /\ exhausted' = FALSE
    /\ last_node' = << >>
    /\ node' = << >>
    /\ token' = NoToken
    /\ msg' = 0
    /\ tool_calls' = << >>
    /\ UNCHANGED <<drawn, messages, steps, ui, env, settings, ret, source>>

NextSession ==
    \/ Main
    \/ Next

SpecSession == InitSession /\ [][NextSession]_vars

(***************************************************************************)
(* Functions outside the relay: Settings, get_chat_model, build_agent      *)
(* (agent.py), auth_callback (app.py) and the scorer tool_calling_score    *)
(* (scripts/inner_loop_evals.py), each called on inputs from small sets.   *)
(***************************************************************************)
\* Longest message list the scorer is given.
MaxMessages == 3

\* the values an environment variable of a field may have
FieldValues == {<< >>, <<"">>, <<"x">>}

\* the values LLM_PROVIDER may have
ProviderValues == {<< >>, <<"">>, <<OPENAI>>, <<VERTEX>>, <<"azure">>}

Environments ==
    [LLM_PROVIDER : ProviderValues, OPENAI_API_KEY : FieldValues,
     OPENAI_MODEL_NAME : FieldValues, VERTEX_PROJECT_ID : FieldValues,
     VERTEX_REGION : FieldValues, VERTEX_MODEL_NAME : FieldValues]

\* The return test as the docstring of line 75 words it.
ReturnsConnectionWhenFalse(return_connection, use_memory_checkpointer) ==
    ~use_memory_checkpointer /\ ~return_connection

\* agent.py line 139
ReturnsConnection(return_connection, use_memory_checkpointer) ==
    ~use_memory_checkpointer /\ return_connection

\* agent.py lines 69-141: Settings() (79), get_chat_model() (82), the
\* dereference of OPENAI_API_KEY (93-94) and the return (139-141).
build_agent(e, return_connection, use_memory_checkpointer) ==
    LET st  == NewSettings(e)
        llm_ == get_chat_model(e)
    IN  IF ~st.ok THEN [raised |-> st.error, value |-> << >>]
        ELSE IF llm_.raised # "" THEN [raised |-> llm_.raised, value |-> << >>]
        ELSE IF openai_enabled(st.fields) /\ st.fields.OPENAI_API_KEY = << >>
        THEN [raised |-> "AttributeError", value |-> << >>]
        ELSE IF ReturnsConnection(return_connection, use_memory_checkpointer)
        THEN [raised |-> "", value |-> <<"agent", "conn">>]
        ELSE [raised |-> "", value |-> <<"agent">>]

ADMIN == "admin"

Usernames == {"alice", "admin", ""}

Passwords == {"admin", "Admin", "alice", ""}

\* The test of line 35 made on the username.
auth_callback_on_username(username, password) ==
    IF username = ADMIN
    THEN <<[identifier |-> username,
            metadata |-> [role |-> "admin", provider |-> "credentials"]]>>
    ELSE << >>

\* app.py lines 31-38; << >> is None, <<u>> the cl.User returned.
auth_callback(username, password) ==
    IF password = ADMIN
    THEN <<[identifier |-> username,
            metadata |-> [role |-> "admin", provider |-> "credentials"]]>>
    ELSE << >>

\* inner_loop_evals.py: an AIMessage with the ids of its tool calls, a
\* ToolMessage with its tool_call_id.
AIMessage(ids) == [type |-> "ai", ids |-> ids]

ToolMessage(id) == [type |-> "tool", ids |-> <<id>>]

MessageValues ==
    {AIMessage(<< >>), AIMessage(<<"t1">>), AIMessage(<<"t1", "t2">>),
     ToolMessage("t1"), ToolMessage("t2")}

\* the message lists of at most n messages
RECURSIVE MessageLists(_)
MessageLists(n) ==
    IF n = 0 THEN {<< >>}
    ELSE MessageLists(n - 1)
         \cup {Append(l, m) : l \in {x \in MessageLists(n - 1) : Len(x) = n - 1},
                              m \in MessageValues}

\* line 37: the tool calls of the AI messages, in order
RECURSIVE ToolCallIds(_)
ToolCallIds(messages_) ==
    IF messages_ = << >> THEN << >>
    ELSE (IF Head(messages_).type = "ai" THEN Head(messages_).ids ELSE << >>)
         \o ToolCallIds(Tail(messages_))

\* lines 29-46: the pairs, or IndexError when line 43 finds no response.
get_tool_calls(messages_) ==
    LET ids == ToolCallIds(messages_)
        answered(id) == \E k \in 1..Len(messages_) :
                            messages_[k].type = "tool" /\ messages_[k].ids = <<id>>
    IN  IF \A k \in 1..Len(ids) : answered(ids[k])
        THEN [raised |-> "", value |-> ids]
        ELSE [raised |-> "IndexError", value |-> << >>]

\* lines 85-91
tool_calling_score(messages_) ==
    LET tool_calls_ == get_tool_calls(messages_)
    IN  IF tool_calls_.raised # "" THEN [raised |-> tool_calls_.raised, value |-> << >>]
        ELSE IF Len(tool_calls_.value) <= 1
        THEN [raised |-> "", value |-> <<"yes", "Exactly one tool call was made">>]
        ELSE [raised |-> "", value |-> <<"no", "More than one tool call was made">>]

\* the relay's own state
relay == <<drawn, exhausted, pc, last_node, node, token, msg, messages, steps, ui,
           message_history, tool_calls, raised>>

\* A process whose environment is any of Environments, before its first call.
InitConfig ==
    /\ drawn = << >>
    /\ exhausted = FALSE
    /\ pc = "idle"
    /\ last_node = << >>
    /\ node = << >>
    /\ token = NoToken
    /\ msg = 0
    /\ messages = << >>
    /\ steps = << >>
    /\ ui = << >>
    /\ message_history = << >>
    /\ tool_calls = << >>
    /\ raised = ""
    /\ turn = 0
    /\ hook = "idle"
    /\ env \in Environments
    /\ settings = NoSettings
    /\ ret = NoReturn
    /\ source = [events |-> {}, limit |-> 0]

\* settings = Settings() (app.py line 24, agent.py line 79)
CallSettings ==
    /\ settings' = NewSettings(env)
    /\ UNCHANGED <<relay, turn, hook, env, ret, source>>

CallGetChatModel ==
    /\ ret' = [fn |-> "get_chat_model", args |-> << >>,
               raised |-> get_chat_model(env).raised, value |-> get_chat_model(env).value]
    /\ UNCHANGED <<relay, turn, hook, env, settings, source>>

CallBuildAgent ==
    /\ \E rc \in BOOLEAN, mem \in BOOLEAN :
          ret' = [fn |-> "build_agent",
                  args |-> [return_connection |-> rc, use_memory_checkpointer |-> mem],
                  raised |-> build_agent(env, rc, mem).raised,
                  value |-> build_agent(env, rc, mem).value]
    /\ UNCHANGED <<relay, turn, hook, env, settings, source>>

CallAuthCallback ==
    /\ \E u \in Usernames, p \in Passwords :
          ret' = [fn |-> "auth_callback", args |-> [username |-> u, password |-> p],
                  raised |-> "", value |-> auth_callback(u, p)]
    /\ UNCHANGED <<relay, turn, hook, env, settings, source>>

CallToolCallingScore ==
    /\ \E outputs \in MessageLists(MaxMessages) :
          ret' = [fn |-> "tool_calling_score", args |-> outputs,
                  raised |-> tool_calling_score(outputs).raised,
                  value |-> tool_calling_score(outputs).value]
    /\ UNCHANGED <<relay, turn, hook, env, settings, source>>

NextConfig ==
    \/ CallSettings
    \/ CallGetChatModel
    \/ CallBuildAgent

SpecConfig == InitConfig /\ [][NextConfig]_vars

\* The chat application's process, before a login and before a scorer run.
InitCalls ==
    /\ InitConfig
    /\ env = ChatEnv

NextCalls ==
    \/ CallAuthCallback
    \/ CallToolCallingScore

SpecCalls == InitCalls /\ [][NextCalls]_vars

(***************************************************************************)
(* Reading the generator's history                                         *)
(***************************************************************************)
EvNode(i) == drawn[i].event.metadata.langgraph_node

EvToken(i) == drawn[i].event.token

EvContent(i) == drawn[i].event.token.content

By(i) == drawn[i].by

ContainsTools(n) == \E k \in 1..Len(n) : n[k] = "tools"

\* Event i reached the ordinary-text branch of the outer loop.
IsOuterText(i) ==
    /\ By(i) = "outer"
    /\ EvContent(i) # << >>
    /\ EvContent(i) # THINK_OPEN
    /\ ~ContainsTools(EvNode(i))

OuterTexts == {i \in 1..Len(drawn) : IsOuterText(i)}

\* The content of the events lo..hi that are in S, in arrival order.
RECURSIVE ContentsOf(_, _, _)
ContentsOf(lo, hi, S) ==
    IF lo > hi THEN << >>
    ELSE (IF lo \in S THEN EvContent(lo) ELSE << >>) \o ContentsOf(lo + 1, hi, S)

SingleNode == \A i, j \in 1..Len(drawn) : EvNode(i) = EvNode(j)

MessageUpdates(i) ==
    Cardinality({k \in 1..Len(ui) : ui[k] = UiOp("message", i, "update")})

OpenMessages == {i \in 1..Len(messages) : messages[i].updates = 0}

AssistantEntry(text) == [role |-> "assistant", content |-> text]

(***************************************************************************)
(* C1                                                                      *)
(***************************************************************************)
\* C1 as stated: when the relay has returned from a sequence whose events
\* all carry the same node and some of which carry content, exactly one
\* Display Message exists and its content is the concatenation of the
\* content of every event of the sequence.
C1_EveryFragmentInOneMessage ==
    (pc = "done" /\ SingleNode /\ (\E i \in 1..Len(drawn) : EvContent(i) # << >>))
        => /\ Len(messages) = 1
           /\ messages[1].content = ContentsOf(1, Len(drawn), 1..Len(drawn))

\* C1 amended: when the relay has returned from a sequence whose events all
\* carry the same node, at most one Display Message was opened; one was
\* opened exactly when some event handled by the outer loop carried
\* ordinary text (non-empty, not "<think>", node without "tools"); its
\* content is the concatenation, in arrival order, of the content of
\* exactly those events, and it was finalized.
C1_OuterTextInOneMessage ==
    (pc = "done" /\ SingleNode)
        => /\ Len(messages) <= 1
           /\ (Len(messages) = 1) <=> (OuterTexts # {})
           /\ \A m \in 1..Len(messages) :
                 /\ messages[m].content = ContentsOf(1, Len(drawn), OuterTexts)
                 /\ messages[m].updates = 1

\* Two fragments went to the one message, around an event the thinking
\* sub-loop or the aggregation loop consumed.
C1_Witness ==
    /\ pc = "done"
    /\ SingleNode
    /\ Len(messages) = 1
    /\ messages[1].content = <<"Hello ", "world">>
    /\ \E i \in 1..Len(drawn) : By(i) # "outer" /\ EvContent(i) # << >>

C3_FinalizedExactlyOnce ==
    /\ \A i \in 1..Len(messages) :
          /\ messages[i].updates <= 1
          /\ MessageUpdates(i) = messages[i].updates
    /\ pc = "done" =>
          /\ \A i \in 1..Len(messages) : MessageUpdates(i) = 1
          /\ Len(message_history) = 1 + Len(messages)

\* One message was closed by a node change and one by the end of the stream.
C3_Witness ==
    /\ pc = "done"
    /\ Len(messages) = 2
    /\ \E k \in 1..Len(ui) :
          /\ ui[k] = UiOp("message", 1, "update")
          /\ k < Len(ui)
    /\ ui[Len(ui)] = UiOp("message", 2, "update")

(***************************************************************************)
(* C4                                                                      *)
(***************************************************************************)
\* C4: at most one Display Message is open at any time, the open one is the
\* relay's msg, and a message is created only when no message is open.
C4_AtMostOneOpen ==
    /\ Cardinality(OpenMessages) <= 1
    /\ OpenMessages = (IF msg = 0 \/ pc = "done" THEN {} ELSE {msg})
    /\ \A i \in 1..Len(messages) : i # Len(messages) => messages[i].updates >= 1

\* A second message is open after the first one was closed.
C4_Witness ==
    /\ Len(messages) = 2
    /\ OpenMessages = {2}
    /\ msg = 2
    /\ pc = "loop"

(***************************************************************************)
(* Reading a run of tool-call chunks                                       *)
(***************************************************************************)
\* The event of the current iteration of the outer loop.
Trigger == CHOOSE i \in 1..Len(drawn) :
               By(i) = "outer" /\ \A j \in 1..Len(drawn) : By(j) = "outer" => j <= i

\* The chunks of the trigger and of the events the aggregation loop drew
\* after it, in arrival order.
RECURSIVE RunChunks(_, _)
RunChunks(lo, hi) ==
    IF lo > hi THEN << >>
    ELSE (IF lo = Trigger \/ By(lo) = "tool_call"
          THEN EvToken(lo).tool_call_chunks ELSE << >>) \o RunChunks(lo + 1, hi)

\* The indexes of a chunk list, in order of first appearance.
RECURSIVE IndexOrder(_, _)
IndexOrder(chunks, seen) ==
    IF chunks = << >> THEN << >>
    ELSE IF chunks[1].index \in seen THEN IndexOrder(Tail(chunks), seen)
    ELSE <<chunks[1].index>> \o IndexOrder(Tail(chunks), seen \cup {chunks[1].index})

\* The args fragments of the chunks with index k, concatenated in order.
RECURSIVE ArgsOfIndex(_, _)
ArgsOfIndex(chunks, k) ==
    IF chunks = << >> THEN << >>
    ELSE (IF chunks[1].index = k /\ chunks[1].args.ty = "str"
          THEN chunks[1].args.val ELSE << >>) \o ArgsOfIndex(Tail(chunks), k)

RECURSIVE NameOfIndex(_, _)
NameOfIndex(chunks, k) ==
    IF chunks = << >> THEN << >>
    ELSE (IF chunks[1].index = k /\ chunks[1].name.ty = "str"
          THEN chunks[1].name.val ELSE << >>) \o NameOfIndex(Tail(chunks), k)

HasName(chunks, k) ==
    \E c \in 1..Len(chunks) : chunks[c].index = k /\ chunks[c].name.ty = "str"

\* The list of {name, args} the Tool Call step should show for these chunks.
ExpectedItems(chunks) ==
    LET order == IndexOrder(chunks, {})
    IN  [c \in 1..Len(order) |->
            ToolCall(IF HasName(chunks, order[c])
                     THEN PyStr(NameOfIndex(chunks, order[c])) ELSE PyNone,
                     JsonLoads(ArgsOfIndex(chunks, order[c])).value)]

AllArgsParse(chunks) ==
    \A c \in 1..Len(chunks) : JsonLoads(ArgsOfIndex(chunks, chunks[c].index)).ok

RECURSIVE ArgsLength(_)
ArgsLength(chunks) ==
    IF chunks = << >> THEN 0 ELSE Len(chunks[1].args.val) + ArgsLength(Tail(chunks))

\* json.dumps of [{"name": "search", "args": {"a": 1}}], lexeme by lexeme.
SearchA1Json ==
    <<"[", "{", "\"", "name", "\"", ":", "\"", "search", "\"", ",",
      "\"", "args", "\"", ":", "{", "\"", "a", "\"", ":", "1", "}", "}", "]">>

SearchA1Step ==
    [name |-> "Tool Call",
     output |-> <<FENCE, "json", "\n">> \o SearchA1Json \o <<"\n", FENCE>>,
     is_error |-> FALSE, ended |-> TRUE]

(***************************************************************************)
(* C5                                                                      *)
(***************************************************************************)
\* C5: every event drawn while tool_call aggregates comes off the shared
\* generator and is consumed by tool_call. One with chunks is merged and
\* aggregation goes on. The first one without chunks ends aggregation and
\* is dropped: no message, history entry or step comes from its content or
\* its tool_calls, the only emission is the Tool Call step of what was
\* accumulated before it, and last_node becomes the node of the trigger,
\* not the node of the dropped event.
C5_TerminalEventDropped ==
    [][ (pc = "aggregating" /\ Len(drawn') = Len(drawn) + 1)
           => LET d == drawn'[Len(drawn')]
              IN  /\ d.by = "tool_call"
                  /\ messages' = messages
                  /\ msg' = msg
                  /\ message_history' = message_history
                  /\ IF d.event.token.tool_call_chunks # << >>
                     THEN /\ pc' = "aggregating"
                          /\ ArgsLength(tool_calls') =
                                 ArgsLength(tool_calls)
                                     + ArgsLength(d.event.token.tool_call_chunks)
                          /\ UNCHANGED <<steps, ui, last_node>>
                     ELSE /\ pc' \in {"loop", "error"}
                          /\ tool_calls' = tool_calls
                          /\ Len(steps') = Len(steps) + 1
                          /\ \A k \in 1..Len(steps) : steps'[k] = steps[k]
                          /\ steps'[Len(steps')].name = "Tool Call"
                          /\ pc' = "loop" =>
                                /\ last_node' = node
                                /\ steps'[Len(steps')].output =
                                       FencedJson(JsonDumps(ExpectedItems(tool_calls)))
      ]_vars

\* Aggregation has dropped a terminal event that carried content and the
\* node of another graph stage; the relay is back in the outer loop.
C5_Witness ==
    /\ pc = "loop"
    /\ Len(drawn) >= 2
    /\ By(Len(drawn)) = "tool_call"
    /\ EvToken(Len(drawn)).tool_call_chunks = << >>
    /\ EvContent(Len(drawn)) = <<"result">>
    /\ EvNode(Len(drawn)) = TOOLS
    /\ last_node = AGENT
    /\ messages = << >>
    /\ \A k \in 1..Len(steps) : steps[k].name = "Tool Call"

(***************************************************************************)
(* C6                                                                      *)
(***************************************************************************)
\* C6: when tool_call starts on a token with complete tool_calls and no
\* chunks, it draws nothing from the generator, the Tool Call step shows
\* exactly that list, and the relay is back at the head of the outer loop,
\* which therefore draws the event that follows the trigger.
C6_CompleteCallConsumesNothing ==
    /\ [][ (pc = "toolcheck" /\ token.tool_calls # << >> /\ token.tool_call_chunks = << >>)
              => /\ drawn' = drawn
                 /\ exhausted' = exhausted
                 /\ pc' = "loop"
                 /\ last_node' = node
                 /\ steps' = Append(steps, NewStep("Tool Call",
                                 <<FENCE, "json", "\n">> \o JsonDumps(token.tool_calls)
                                     \o <<"\n", FENCE>>, FALSE, TRUE))
         ]_vars
    /\ [](\A i \in 1..Len(drawn) :
             (/\ By(i) = "outer"
              /\ EvToken(i).tool_calls # << >>
              /\ EvToken(i).tool_call_chunks = << >>
              /\ EvContent(i) # THINK_OPEN
              /\ i < Len(drawn))
                 => By(i + 1) = "outer")

\* A complete tool call was rendered and the next event went to the outer loop.
C6_Witness ==
    /\ Len(drawn) = 2
    /\ By(1) = "outer"
    /\ EvToken(1).tool_calls # << >>
    /\ EvToken(1).tool_call_chunks = << >>
    /\ By(2) = "outer"
    /\ EvContent(2) = <<"Hello ">>
    /\ steps = <<SearchA1Step>>
    /\ Len(messages) = 1

(***************************************************************************)
(* C7                                                                      *)
(***************************************************************************)
\* C7: when a run of chunk events ends at an event without chunks, the
\* accumulated calls are, per call index, the concatenation in arrival
\* order of the args fragments of the run, trigger included; the
\* concatenated text is parsed once, then: if every args text is JSON the
\* Tool Call step shows the parsed values, otherwise the parse error leaves
\* the relay. The fragments {"a": and 1} give {"a": 1}. Args that are not
\* a string are shown unchanged.
C7_ArgsConcatenatedThenParsed ==
    [][ /\ (/\ pc = "aggregating"
            /\ Len(drawn') = Len(drawn) + 1
            /\ drawn'[Len(drawn')].event.token.tool_call_chunks = << >>)
           => LET chunks == RunChunks(Trigger, Len(drawn))
                  order  == IndexOrder(chunks, {})
              IN  /\ Len(tool_calls) = Len(order)
                  /\ \A c \in 1..Len(order) :
                        /\ tool_calls[c].index = order[c]
                        /\ tool_calls[c].args = PyStr(ArgsOfIndex(chunks, order[c]))
                  /\ IF AllArgsParse(chunks)
                     THEN /\ pc' = "loop"
                          /\ steps'[Len(steps')] =
                                 NewStep("Tool Call",
                                         <<FENCE, "json", "\n">>
                                             \o JsonDumps(ExpectedItems(chunks))
                                             \o <<"\n", FENCE>>, FALSE, TRUE)
                     ELSE /\ pc' = "error"
                          /\ raised' = "JSONDecodeError"
                  /\ (Len(order) = 1 /\ ArgsOfIndex(chunks, order[1]) = ArgsHead \o ArgsTail
                      /\ NameOfIndex(chunks, order[1]) = <<"search">>)
                        => steps'[Len(steps')] = SearchA1Step
        /\ (/\ pc = "toolcheck"
            /\ token.tool_call_chunks = << >>
            /\ token.tool_calls # << >>
            /\ \A c \in 1..Len(token.tool_calls) : token.tool_calls[c].args.ty # "str")
           => steps'[Len(steps')].output =
                  <<FENCE, "json", "\n">> \o JsonDumps(token.tool_calls) \o <<"\n", FENCE>>
      ]_vars

\* The two fragments of {"a": 1} arrived in two chunk events and an event
\* without chunks closed the run.
C7_Witness ==
    /\ pc = "loop"
    /\ Len(drawn) = 3
    /\ By(1) = "outer" /\ By(2) = "tool_call" /\ By(3) = "tool_call"
    /\ EvToken(1).tool_call_chunks = <<ToolCallChunk(PyStr(<<"search">>), PyStr(ArgsHead), 0)>>
    /\ EvToken(2).tool_call_chunks = <<ToolCallChunk(PyNone, PyStr(ArgsTail), 0)>>
    /\ EvToken(3).tool_call_chunks = << >>
    /\ steps = <<SearchA1Step>>

(***************************************************************************)
(* Reading the steps                                                       *)
(***************************************************************************)
\* The members of a set of indexes, in increasing order.
RECURSIVE Ascending(_)
Ascending(S) ==
    IF S = {} THEN << >>
    ELSE LET lo == CHOOSE x \in S : \A y \in S : x <= y
         IN  <<lo>> \o Ascending(S \ {lo})

StepsNamed(name) == Ascending({k \in 1..Len(steps) : steps[k].name = name})

\* The events on which the outer loop started the thinking sub-loop.
ThinkOpens == Ascending({i \in 1..Len(drawn) : By(i) = "outer" /\ EvContent(i) = THINK_OPEN})

\* The first "</think>" after event t, or the end of what was drawn.
ThinkEnd(t) ==
    LET closes == {j \in (t + 1)..Len(drawn) : EvContent(j) = THINK_CLOSE}
    IN  IF closes = {} THEN Len(drawn) + 1
        ELSE CHOOSE j \in closes : \A x \in closes : j <= x

\* The events the outer loop sent to tool_response.
ToolResponses ==
    Ascending({i \in 1..Len(drawn) :
                  /\ By(i) = "outer"
                  /\ EvContent(i) # << >>
                  /\ EvContent(i) # THINK_OPEN
                  /\ ContainsTools(EvNode(i))})

RECURSIVE AllMessageText(_)
AllMessageText(k) ==
    IF k = 0 THEN << >> ELSE AllMessageText(k - 1) \o messages[k].content

\* The assistant entries the finalized messages should have left, in order.
RECURSIVE FinalizedEntries(_)
FinalizedEntries(k) ==
    IF k = 0 THEN << >>
    ELSE FinalizedEntries(k - 1)
         \o (IF messages[k].updates >= 1
             THEN <<AssistantEntry(messages[k].content)>> ELSE << >>)

AgentText(text) == Event(Token(text, << >>, << >>), AGENT)

\* The end-to-end scenario of the spec.
Scenario ==
    <<Drawn(AgentText(<<"Hello ">>), "outer"),
      Drawn(AgentText(<<"world">>), "outer"),
      Drawn(Event(Token(<<"result">>, << >>, << >>), TOOLS), "outer"),
      Drawn(AgentText(<<"Done">>), "outer")>>

ScenarioResult ==
    /\ messages = <<[content |-> <<"Hello ", "world">>, updates |-> 1],
                    [content |-> <<"Done">>, updates |-> 1]>>
    /\ steps = <<[name |-> "Tool Response",
                  output |-> <<FENCE, "\n", "result", "\n", FENCE>>,
                  is_error |-> FALSE, ended |-> TRUE]>>
    /\ ui = <<UiOp("message", 1, "stream_token"), UiOp("message", 1, "stream_token"),
              UiOp("message", 1, "update"),
              UiOp("step", 1, "send"), UiOp("step", 1, "update"),
              UiOp("message", 2, "stream_token"), UiOp("message", 2, "update")>>
    /\ message_history = <<[role |-> "user", content |-> <<"question">>],
                           AssistantEntry(<<"Hello ", "world">>),
                           AssistantEntry(<<"Done">>)>>

ToolCallTriggers ==
    {i \in 1..Len(drawn) :
        /\ By(i) = "outer"
        /\ (EvToken(i).tool_calls # << >> \/ EvToken(i).tool_call_chunks # << >>)}

RenderedToolCalls ==
    {k \in 1..Len(steps) : steps[k].name = "Tool Call" /\ ~steps[k].is_error}

\* C10: once the relay is done with an event on which it called tool_call
\* (it is back in the outer loop, or has returned or raised), that event
\* has its Tool Call step showing a JSON list, also when the sequence ended
\* while chunks were being accumulated. (Runs whose args text is not JSON
\* and runs in which the generator raised are left aside.)
C10_EveryTriggerRendered ==
    (/\ pc \in {"loop", "done", "error"}
     /\ raised \notin {"JSONDecodeError", UPSTREAM_ERROR}
     /\ ToolCallTriggers # {} => AllArgsParse(RunChunks(Trigger, Len(drawn))))
        => Cardinality(RenderedToolCalls) = Cardinality(ToolCallTriggers)

(***************************************************************************)
(* C11                                                                     *)
(***************************************************************************)
\* The token carries tool data in one of the two shapes tool_call reads.
CarriesToolData(t) == t.tool_calls # << >> \/ t.tool_call_chunks # << >>

\* The step is a call of tool_call at line 157: it starts the aggregation,
\* writes the Tool Call step or raises.
CallsToolCall ==
    /\ pc = "toolcheck"
    /\ (pc' \in {"aggregating", "error"} \/ Len(steps') > Len(steps))

\* C11: every call of tool_call made by stream_agent_response passes an
\* init_token whose tool_calls or tool_call_chunks is non-empty, and the
\* AttributeError of lines 107-109 is never raised.
C11_ToolCallOnlyWithToolData ==
    /\ [][CallsToolCall => CarriesToolData(token)]_vars
    /\ [](raised # "AttributeError")

\* tool_call was called for a complete call and rendered it, after a text
\* token for which it was not called.
C11_Witness ==
    /\ pc = "loop"
    /\ Len(drawn) = 2
    /\ By(1) = "outer" /\ EvContent(1) = <<"Hello ">> /\ ~CarriesToolData(EvToken(1))
    /\ By(2) = "outer" /\ EvToken(2).tool_calls # << >>
    /\ Cardinality(RenderedToolCalls) = 1

(***************************************************************************)
(* C12                                                                     *)
(***************************************************************************)
\* The token carries no content and no tool data.
EmptyToken(t) == t.content = << >> /\ ~CarriesToolData(t)

\* The relay is between two events or has left the loop.
BetweenEvents == pc \in {"loop", "done", "error"}

\* C12 as stated: once the relay is done with an event whose token has
\* neither content nor tool calls nor tool call chunks, the malformed-token
\* error has left stream_agent_response.
C12_EmptyTokenRaises ==
    \A i \in 1..Len(drawn) :
        (EmptyToken(EvToken(i)) /\ BetweenEvents) => raised = "AttributeError"

\* The outer loop draws an event with an empty token.
DrawsEmptyToken ==
    /\ pc = "loop"
    /\ Len(drawn') = Len(drawn) + 1
    /\ EmptyToken(drawn'[Len(drawn')].event.token)

\* C12, amended: an event with an empty token drawn by the outer loop
\* raises nothing and shows nothing: no text is streamed, no message is
\* opened and no step is created; the tool check that follows skips
\* tool_call, records the node in last_node and the loop goes on.
C12_EmptyTokenIsSkipped ==
    /\ [][DrawsEmptyToken =>
            /\ pc' = "toolcheck"
            /\ raised' = ""
            /\ steps' = steps
            /\ Len(messages') = Len(messages)
            /\ \A k \in 1..Len(messages) : messages'[k].content = messages[k].content
            /\ \A k \in 1..Len(ui') : ui'[k].op # "stream_token" \/ k <= Len(ui)]_vars
    /\ [][(pc = "toolcheck" /\ EmptyToken(token)) =>
            /\ pc' = "loop"
            /\ raised' = ""
            /\ last_node' = node
            /\ UNCHANGED <<steps, ui, messages, message_history>>]_vars

\* An empty token on another node closed the open message and the relay
\* is back in the loop without an error.
C12_Witness ==
    /\ pc = "loop"
    /\ raised = ""
    /\ Len(drawn) = 2
    /\ EvContent(1) = <<"Summary">>
    /\ EmptyToken(EvToken(2)) /\ By(2) = "outer"
    /\ last_node = AGENT
    /\ Len(messages) = 1 /\ messages[1].updates = 1
    /\ steps = << >>

(***************************************************************************)
(* C13                                                                     *)
(***************************************************************************)
\* The step in which the generator's exception appears.
GeneratorRaises == raised = "" /\ raised' = UPSTREAM_ERROR

\* C13: when the generator raises while the outer loop, the thinking
\* sub-loop or the aggregation loop awaits the next event, the exception
\* leaves stream_agent_response: no event is drawn again, the relay takes
\* no further step, and the Display Message open at that moment gets no
\* msg.update() and no entry in message_history.
C13_UpstreamErrorPropagates ==
    /\ [][GeneratorRaises =>
            /\ pc \in {"loop", "thinking", "aggregating"}
            /\ pc' = "error"
            /\ UNCHANGED <<drawn, msg, messages, message_history>>
            /\ \A k \in 1..Len(ui') : k > Len(ui) => ui'[k].kind # "message"]_vars
    /\ [][pc # "error"]_vars
    /\ [](raised = UPSTREAM_ERROR =>
            /\ msg # 0 => messages[msg].updates = 0
            /\ SubSeq(message_history, 2, Len(message_history))
                   = FinalizedEntries(Len(messages)))

\* The generator raised inside the thinking sub-loop while a message
\* holding "Hello " was open: the message is still open and the history
\* holds the user's message only.
C13_Witness ==
    /\ raised = UPSTREAM_ERROR
    /\ pc = "error"
    /\ Len(drawn) = 2
    /\ By(2) = "outer" /\ EvContent(2) = THINK_OPEN
    /\ msg = 1
    /\ messages = <<[content |-> <<"Hello ">>, updates |-> 0]>>
    /\ Len(message_history) = 1
    /\ steps[1].is_error

(***************************************************************************)
(* C14                                                                     *)
(***************************************************************************)
\* C14: a failure of mlflow.update_current_trace never fails a turn: it
\* is caught where the call is made, in update_tracing and in main alike,
\* so no turn ends with that error.
C14_TraceFailureIsCaught ==
    /\ hook \in {"idle", "updated", "ignored"}
    /\ raised # TRACE_ERROR

(***************************************************************************)
(* C15                                                                     *)
(***************************************************************************)
\* The roles of the entries of the history, in order.
UserEntries == {i \in 1..Len(message_history) : message_history[i].role = "user"}

\* The assistant entries of the history, in order.
RECURSIVE AssistantEntries(_)
AssistantEntries(k) ==
    IF k = 0 THEN << >>
    ELSE AssistantEntries(k - 1)
         \o (IF message_history[k].role = "assistant"
             THEN <<message_history[k]>> ELSE << >>)

\* C15: over all turns of a session message_history only grows at its end,
\* by one entry at a time: by the user's message when main starts a turn,
\* before the relay of that turn runs, and by one assistant entry holding
\* the full content of the message being finalized, in finalization
\* order; a step that opens or writes a Thinking, Tool Call or Tool
\* Response step and finalizes nothing adds no entry.
C15_HistoryAppendOnly ==
    /\ [][/\ Len(message_history') \in {Len(message_history), Len(message_history) + 1}
          /\ SubSeq(message_history', 1, Len(message_history)) = message_history
          /\ turn' = turn + 1 =>
                /\ Len(message_history') = Len(message_history) + 1
                /\ message_history'[Len(message_history')].role = "user"
                /\ msg' = 0
          /\ (turn' = turn /\ message_history' # message_history) =>
                /\ msg # 0
                /\ messages[msg].updates = 0
                /\ messages'[msg].updates = 1
                /\ message_history'[Len(message_history')]
                       = AssistantEntry(messages[msg].content)
          /\ (turn' = turn /\ \A m \in 1..Len(messages) :
                                   messages'[m].updates = messages[m].updates)
                => message_history' = message_history]_vars
    /\ [](/\ Cardinality(UserEntries) = turn
          /\ message_history # << >> => message_history[1].role = "user"
          /\ AssistantEntries(Len(message_history)) = FinalizedEntries(Len(messages)))

\* Two turns: the first streamed "Hello " and showed a tool response, the
\* second streamed "Summary"; the history holds the four entries in order
\* and the Tool Response step left none.
C15_Witness ==
    /\ turn = 2
    /\ pc = "done"
    /\ Len(steps) = 1 /\ steps[1].name = "Tool Response"
    /\ message_history = <<UserEntry(<<"question">>), AssistantEntry(<<"Hello ">>),
                           UserEntry(<<"more">>), AssistantEntry(<<"Summary">>)>>

(***************************************************************************)
(* C16                                                                     *)
(***************************************************************************)
\* C16: on a sequence that raises nothing (and whose args text is JSON)
\* the relay stops only by returning, with the generator exhausted and
\* each event drawn by exactly one of the three loops, also when the
\* sequence ends inside the thinking sub-loop or the aggregation loop.
C16_StopsOnlyWhenDrained ==
    (pc \in {"done", "error"} /\ raised \notin {UPSTREAM_ERROR, "JSONDecodeError"})
        => /\ pc = "done"
           /\ exhausted
           /\ raised = ""
           /\ \A i \in 1..Len(drawn) : By(i) \in {"outer", "thinking", "tool_call"}

(***************************************************************************)
(* C17                                                                     *)
(***************************************************************************)
\* build_agent has returned.
BuildAgentReturned == ret.fn = "build_agent" /\ ret.raised = ""

RECURSIVE CountToolCalls(_)
CountToolCalls(outputs) ==
    IF outputs = << >> THEN 0
    ELSE (IF Head(outputs).type = "ai" THEN Len(Head(outputs).ids) ELSE 0)
         + CountToolCalls(Tail(outputs))

\* C18: tool_calling_score answers "yes" exactly when the output holds
\* exactly one tool call, and "no" for every other number of tool calls.
C18_YesIffExactlyOne ==
    (ret.fn = "tool_calling_score" /\ ret.raised = "") =>
        ret.value[1] = (IF CountToolCalls(ret.args) = 1 THEN "yes" ELSE "no")

(***************************************************************************)
(* C19                                                                     *)
(***************************************************************************)
\* C19: auth_callback returns a user whose identifier is the username
\* given and whose role is admin exactly when the password is "admin",
\* and None for every other password, whatever the username.
C19_AdminPasswordOnly ==
    ret.fn = "auth_callback" =>
        IF ret.args.password = "admin"
        THEN /\ Len(ret.value) = 1
             /\ ret.value[1].identifier = ret.args.username
             /\ ret.value[1].metadata.role = "admin"
        ELSE ret.value = << >>

\* alice logs in with the password.
C19_Witness ==
    /\ ret.fn = "auth_callback"
    /\ ret.args = [username |-> "alice", password |-> "admin"]
    /\ ret.value # << >>
    /\ ret.value[1].identifier = "alice"

(***************************************************************************)
(* C20                                                                     *)
(***************************************************************************)
\* The variable is missing from the environment or set to nothing.
Missing(v) == v = << >> \/ v = <<"">>

\* The provider the environment selects.
Selected(e) == IF Missing(e.LLM_PROVIDER) THEN <<OPENAI>> ELSE e.LLM_PROVIDER

\* A variable the selected provider requires is missing.
RequiredMissing(e) ==
    IF Selected(e) = <<OPENAI>>
    THEN Missing(e.OPENAI_API_KEY) \/ Missing(e.OPENAI_MODEL_NAME)
    ELSE Missing(e.VERTEX_PROJECT_ID) \/ Missing(e.VERTEX_REGION)
         \/ Missing(e.VERTEX_MODEL_NAME)

\* Settings() has been called.
SettingsCalled == settings.error # "unbuilt"

\* C20: a Settings object that was constructed has exactly one of
\* openai_enabled and vertex_enabled true and holds the variables of its
\* provider; construction fails whenever one of them is missing; and
\* get_chat_model never dereferences an unset OPENAI_API_KEY.
C20_SettingsHoldTheirProvider ==
    /\ settings.ok =>
          /\ openai_enabled(settings.fields) # vertex_enabled(settings.fields)
          /\ IF settings.fields.LLM_PROVIDER = <<OPENAI>>
             THEN /\ settings.fields.OPENAI_API_KEY # << >>
                  /\ settings.fields.OPENAI_MODEL_NAME # << >>
             ELSE /\ settings.fields.VERTEX_PROJECT_ID # << >>
                  /\ settings.fields.VERTEX_REGION # << >>
                  /\ settings.fields.VERTEX_MODEL_NAME # << >>
    /\ (SettingsCalled /\ RequiredMissing(env)) => ~settings.ok
    /\ ret.fn \in {"get_chat_model", "build_agent"} => ret.raised # "AttributeError"
    /\ (ret.fn = "get_chat_model" /\ ret.raised = "" /\ Selected(env) = <<OPENAI>>)
          => ~Missing(env.OPENAI_API_KEY)

\* Settings were built for vertex with no OpenAI key in the environment,
\* and get_chat_model returned the Vertex model.
C20_Witness ==
    /\ settings.ok
    /\ vertex_enabled(settings.fields)
    /\ env.OPENAI_API_KEY = << >>
    /\ ret.fn = "get_chat_model"
    /\ ret.value = <<"ChatAnthropicVertex">>

(***************************************************************************)
(* C21                                                                     *)
(***************************************************************************)
\* The token carries both tool call chunks and complete tool calls.
CarriesBoth(t) == t.tool_call_chunks # << >> /\ t.tool_calls # << >>

\* C21: when the token on which tool_call is called carries both
\* tool_call_chunks and tool_calls, tool_call starts the aggregation with
\* the chunks and writes no step from the complete list; the event that
\* follows is drawn by the aggregation loop, and the run ends at the first
\* event without chunks, which is dropped.
C21_BothShapesTakeChunkPath ==
    /\ [][(pc = "toolcheck" /\ CarriesBoth(token))
             => /\ pc' = "aggregating"
                /\ tool_calls' = token.tool_call_chunks
                /\ UNCHANGED <<drawn, steps, ui, last_node, messages>>]_vars
    /\ [](\A i \in 1..Len(drawn) :
             (By(i) = "outer" /\ CarriesBoth(EvToken(i)) /\ EvContent(i) # THINK_OPEN)
                => /\ i < Len(drawn) => By(i + 1) = "tool_call"
                   /\ \A j \in (i + 1)..Len(drawn) :
                         (\A k \in (i + 1)..j : EvToken(k).tool_call_chunks # << >>)
                            => By(j) = "tool_call"
                   /\ \A j \in (i + 1)..(Len(drawn) - 1) :
                         (/\ EvToken(j).tool_call_chunks = << >>
                          /\ \A k \in (i + 1)..(j - 1) : EvToken(k).tool_call_chunks # << >>)
                            => By(j) = "tool_call" /\ By(j + 1) = "outer")

\* The first chunk of "search" came with partially parsed tool_calls; the
\* continuation chunk was merged, the tool response that followed was
\* dropped, and the step shows the aggregated call, not the partial one.
C21_Witness ==
    /\ pc = "loop"
    /\ Len(drawn) = 4
    /\ By(1) = "outer" /\ CarriesBoth(EvToken(1))
    /\ By(2) = "tool_call" /\ EvToken(2).tool_call_chunks # << >>
    /\ By(3) = "tool_call" /\ EvContent(3) = <<"result">>
    /\ By(4) = "outer"
    /\ Len(steps) = 1
    /\ steps[1].name = "Tool Call" /\ ~steps[1].is_error
    /\ steps[1].output # FencedJson(JsonDumps(EvToken(1).tool_calls))
    /\ steps[1].output = SearchA1Step.output

(***************************************************************************)
(* C22                                                                     *)
(***************************************************************************)
\* The relay is inside thinking or inside the aggregation loop of tool_call.
InNestedLoop == pc \in {"thinking", "aggregating"}

\* The outer loop draws ordinary text on the node of last_node right after
\* a nested loop consumed the event before it, with a message open.
TextAfterNestedLoop ==
    /\ pc = "loop"
    /\ Len(drawn) >= 1
    /\ By(Len(drawn)) \in {"thinking", "tool_call"}
    /\ Len(drawn') = Len(drawn) + 1
    /\ msg # 0
    /\ LET e == drawn'[Len(drawn')].event
       IN  /\ e.token.content # << >>
           /\ e.token.content # THINK_OPEN
           /\ ~(\E k \in 1..Len(e.metadata.langgraph_node) :
                   e.metadata.langgraph_node[k] = "tools")
           /\ e.metadata.langgraph_node = last_node

\* C22: a step taken inside the thinking sub-loop or the aggregation loop
\* creates and finalizes no Display Message, adds no history entry and
\* leaves msg and last_node as they were; on return last_node is set to
\* the node of the event that started the nested loop, whatever the nodes
\* of the events consumed inside; so the message open when the nested loop
\* started is still open, and ordinary text that follows on that node is
\* appended to that same message.
C22_NestedLoopsKeepMessageState ==
    /\ [][InNestedLoop =>
            /\ UNCHANGED <<msg, messages, message_history, node, token>>
            /\ \A k \in 1..Len(ui') : k > Len(ui) => ui'[k].kind # "message"
            /\ pc' \in {"thinking", "aggregating", "toolcheck", "error"}
                  => last_node' = last_node
            /\ pc' = "loop" => last_node' = node]_vars
    /\ [][(pc = "toolcheck" /\ pc' = "loop") =>
            /\ last_node' = node
            /\ UNCHANGED <<msg, messages, message_history>>]_vars
    /\ [](pc \in {"thinking", "aggregating", "toolcheck"} => node = EvNode(Trigger))
    /\ [][TextAfterNestedLoop =>
            /\ msg' = msg
            /\ Len(messages') = Len(messages)
            /\ messages'[msg] =
                   [content |-> messages[msg].content
                                   \o drawn'[Len(drawn')].event.token.content,
                    updates |-> 0]
            /\ message_history' = message_history]_vars

\* "Hello " opened a message on node agent; a chunk started the
\* aggregation, which consumed and dropped a tool response of node tools;
\* "world" on node agent then went to the same, still open message.
C22_Witness ==
    /\ Len(drawn) = 4
    /\ By(1) = "outer" /\ EvContent(1) = <<"Hello ">>
    /\ By(2) = "outer" /\ EvToken(2).tool_call_chunks # << >>
    /\ By(3) = "tool_call" /\ EvNode(3) = TOOLS
    /\ By(4) = "outer" /\ EvContent(4) = <<"world">>
    /\ msg = 1
    /\ messages = <<[content |-> <<"Hello ", "world">>, updates |-> 0]>>
    /\ Len(message_history) = 1
    /\ Len(steps) = 1 /\ steps[1].name = "Tool Call"

====
